---- MODULE Spec2Model ----
(***************************************************************************)
(* Model of pyomo/solvers/plugins/solvers/MIPCL.py: the MIPCL solver       *)
(* factory (MIPCL.__new__), the shell adapter (MIPCLSHELL) and the mock    *)
(* adapter (MockMIPCL).                                                    *)
(*                                                                         *)
(* Python values are tagged records, so that None, strings and numbers can *)
(* be told apart; a Python string is a sequence of one-character strings,  *)
(* so that formatting ("--%s" % k, str(v)) and strip() are computed.       *)
(***************************************************************************)
EXTENDS Integers, Sequences, FiniteSets, TLC

\* ------------------------------------------------------------------ bounds
MaxNew == 2
MaxOpts == 2
MaxCalls == 2
MaxMocks == 3

\* ------------------------------------------------------- Python values
None == [t |-> "None"]
StrV(s) == [t |-> "str", s |-> s]
IntV(n) == [t |-> "int", n |-> n]
\* a float with one decimal, held in tenths
FloatV(n) == [t |-> "float", tenths |-> n]

IsNone(v) == v.t = "None"
IsString(v) == v.t = "str"

Whitespace == {" ", "\t"}

RECURSIVE LStrip(_)
LStrip(s) ==
    IF s # <<>> /\ Head(s) \in Whitespace THEN LStrip(Tail(s)) ELSE s

RECURSIVE RStrip(_)
RStrip(s) ==
    IF s # <<>> /\ s[Len(s)] \in Whitespace
    THEN RStrip(SubSeq(s, 1, Len(s) - 1))
    ELSE s

Strip(s) == RStrip(LStrip(s))

Digit(d) == <<"0", "1", "2", "3", "4", "5", "6", "7", "8", "9">>[d + 1]

RECURSIVE NatStr(_)
NatStr(n) == IF n < 10 THEN <<Digit(n)>> ELSE NatStr(n \div 10) \o <<Digit(n % 10)>>

IntStr(n) == IF n < 0 THEN <<"-">> \o NatStr(0 - n) ELSE NatStr(n)

FloatStr(n) ==
    IF n < 0
    THEN <<"-">> \o NatStr((0 - n) \div 10) \o <<".", Digit((0 - n) % 10)>>
    ELSE NatStr(n \div 10) \o <<".", Digit(n % 10)>>

\* Python's str(v)
Str(v) ==
    CASE v.t = "None" -> <<"N", "o", "n", "e">>
      [] v.t = "str" -> v.s
      [] v.t = "int" -> IntStr(v.n)
      [] v.t = "float" -> FloatStr(v.tenths)

\* "--%s" % k
Flag(k) == <<"-", "-">> \o k

\* ------------------------------------------------------------- state
VARIABLES
    mipcl_version,   \* module global _mipcl_version
    request,         \* keywords of the last MIPCL(...) call
    ret,             \* what the last MIPCL(...) call returned
    raised,          \* exception the last MIPCL(...) call let through
    delegates,       \* solver objects made by SolverFactory, in order
    logger_errors,   \* records passed to logger.error
    nnew             \* number of MIPCL(...) calls made

fvars == <<mipcl_version, request, ret, raised, delegates, logger_errors, nnew>>

\* ------------------------------------------------ MIPCL.__new__ (factory)
MPS == <<"m", "p", "s">>
MOD == <<"m", "o", "d">>
OS == <<"o", "s">>

\* values given for the solver_io keyword
SolverIoValues ==
    { None, StrV(MPS), StrV(MOD), StrV(OS),
      StrV(<<"l", "p">>), StrV(<<"M", "P", "S">>), StrV(<<>>), IntV(0) }

OtherKeywords == {"name", "options"}

Requests ==
    [has_io : {TRUE}, io : SolverIoValues, others : SUBSET OtherKeywords]
    \cup [has_io : {FALSE}, io : {None}, others : SUBSET OtherKeywords]

Keywords(req) == req.others \cup (IF req.has_io THEN {"solver_io"} ELSE {})

\* _extract_version('') finds no version number
ExtractVersionOfEmpty == None

configure_mipcl(version) ==
    IF ~IsNone(version) THEN version ELSE ExtractVersionOfEmpty

\* lines 47-53: the mode, None and a missing keyword both meaning 'mps'
ModeOf(req) ==
    IF req.has_io
    THEN (IF IsNone(req.io) THEN StrV(MPS) ELSE req.io)
    ELSE StrV(MPS)

PassedKwds_keep(req) == Keywords(req)

\* lines 47-53: the keywords left in kwds for SolverFactory
PassedKwds(req) ==
    IF req.has_io THEN Keywords(req) \ {"solver_io"} ELSE Keywords(req)

Branch_default(mode) ==
    CASE mode = StrV(MOD) -> "mod"
      [] mode = StrV(OS) -> "os"
      [] OTHER -> "mps"

\* lines 54-66: which arm of the if chain runs
Branch(mode) ==
    CASE mode = StrV(MPS) -> "mps"
      [] mode = StrV(MOD) -> "mod"
      [] mode = StrV(OS) -> "os"
      [] OTHER -> "unknown"

FactoryEntry_shell(branch) == "_mipcl_shell"

\* lines 55, 59, 63: the SolverFactory entry asked for
FactoryEntry(branch) ==
    IF branch = "os" THEN "_ossolver" ELSE "_mipcl_shell"

\* lines 56, 60: the format handed to set_problem_format
RequestedFormat(branch) ==
    IF branch = "mps" THEN "mps" ELSE "cpxlp"

\* lines 79-82: formats the shell adapter declares valid
ValidProblemFormats == {"mps", "mod"}

\* SolverFactory(entry, **kwds): MIPCLSHELL.__init__ for '_mipcl_shell'
MakeDelegate(entry, kwds) ==
    IF entry = "_mipcl_shell"
    THEN [entry |-> entry, kwds |-> kwds, type |-> "mipcl",
          valid |-> ValidProblemFormats, problem_format |-> "mps",
          options |-> <<>>]
    ELSE [entry |-> entry, kwds |-> kwds, type |-> "os",
          valid |-> {}, problem_format |-> "unset",
          options |-> <<>>]

\* OptSolver.set_problem_format: a format the adapter does not accept is
\* rejected with ValueError
SetProblemFormatOk(d, fmt) == fmt \in d.valid

SetProblemFormat(d, fmt) == [d EXCEPT !.problem_format = fmt]

SetOptions(d, text) == [d EXCEPT !.options = Append(@, text)]

FInit ==
    /\ mipcl_version = None
    /\ request = [has_io |-> FALSE, io |-> None, others |-> {}]
    /\ ret = None
    /\ raised = "none"
    /\ delegates = <<>>
    /\ logger_errors = <<>>
    /\ nnew = 0

NewShell(req) ==
    LET branch == Branch(ModeOf(req))
        opt == MakeDelegate(FactoryEntry(branch), PassedKwds(req))
        fmt == RequestedFormat(branch)
    IN  /\ branch \in {"mps", "mod"}
        /\ IF SetProblemFormatOk(opt, fmt)
           THEN /\ delegates' = Append(delegates, SetProblemFormat(opt, fmt))
                /\ ret' = [t |-> "obj", id |-> Len(delegates) + 1]
                /\ raised' = "none"
           ELSE /\ delegates' = Append(delegates, opt)
                /\ ret' = None
                /\ raised' = "ValueError"
        /\ UNCHANGED logger_errors

NewOs(req) ==
    LET branch == Branch(ModeOf(req))
        opt == MakeDelegate(FactoryEntry(branch), PassedKwds(req))
    IN  /\ branch = "os"
        /\ delegates' = Append(delegates, SetOptions(opt, "solver=mps_mipcl"))
        /\ ret' = [t |-> "obj", id |-> Len(delegates) + 1]
        /\ raised' = "none"
        /\ UNCHANGED logger_errors

NewUnknown(req) ==
    LET mode == ModeOf(req)
    IN  /\ Branch(mode) = "unknown"
        /\ logger_errors' = Append(logger_errors,
               [level |-> "error", fmt |-> "Unknown IO type: %s", arg |-> Str(mode)])
        /\ ret' = None
        /\ raised' = "none"
        /\ UNCHANGED delegates

\* MIPCL(*args, **kwds)
New ==
    /\ nnew < MaxNew
    /\ \E req \in Requests :
        /\ request' = req
        /\ mipcl_version' = configure_mipcl(mipcl_version)
        /\ nnew' = nnew + 1
        /\ \/ NewShell(req)
           \/ NewOs(req)
           \/ NewUnknown(req)

\* -------------------------------------------------- MIPCLSHELL (adapter)
VARIABLES
    options,         \* self.options, as the (name, value) pairs iteritems yields
    timelimit,       \* self._timelimit
    timer,           \* self._timer
    log_file,        \* self._log_file
    soln_file,       \* self._soln_file
    enable,          \* self.enable
    registry,        \* what services.registered_executable('mps_mipcl') finds
    command,         \* Bunch returned by the last create_command_line
    call_exe,        \* executable argument of the last create_command_line
    tempfiles,       \* number of create_tempfile requests made
    returned_logs,   \* log_file of every Bunch returned so far
    warnings,        \* number of logger.warning calls
    last_op,         \* name of the last adapter operation run
    op_ret,          \* what that operation returned (create_command_line: command)
    ncalls           \* number of adapter operations run

svars == <<options, timelimit, timer, log_file, soln_file, enable, registry,
           command, call_exe, tempfiles, returned_logs, warnings, last_op,
           op_ret, ncalls>>

\* Python truth value, as in `if self._timer:`
Truthy(v) ==
    CASE v.t = "None" -> FALSE
      [] v.t = "str" -> v.s # <<>>
      [] v.t = "int" -> v.n # 0
      [] v.t = "float" -> v.tenths # 0

TimeFlag == <<"-", "t", "i", "m", "e">>

\* line 108: create_tempfile(suffix='.mipcl.log'), a new name at every request
create_tempfile(n) == [t |-> "tmp", n |-> n, suffix |-> ".mipcl.log"]

NeedsTempfile_always(lf) == TRUE

\* line 107
NeedsTempfile(lf) == IsNone(lf)

InsertTimer_after(cmd, tm) ==
    IF Truthy(tm) THEN cmd \o <<Str(tm)>> ELSE cmd

\* lines 113-114: cmd.insert(0, self._timer)
InsertTimer(cmd, tm) ==
    IF Truthy(tm) THEN <<Str(tm)>> \o cmd ELSE cmd

BareOption_none(v) == IsNone(v)

\* line 116: the option has no value to pass
BareOption(v) == IsNone(v) \/ (IsString(v) /\ Strip(v.s) = <<>>)

\* lines 116-119: the arguments one option adds
OptionGroup(k, v) ==
    IF BareOption(v) THEN <<Flag(k)>> ELSE <<Flag(k), Str(v)>>

\* lines 115-119: the loop over iteritems(self.options)
RECURSIVE ExtendOptions(_, _)
ExtendOptions(cmd, opts) ==
    IF opts = <<>>
    THEN cmd
    ELSE ExtendOptions(cmd \o OptionGroup(Head(opts).k, Head(opts).v), Tail(opts))

\* v > 0.0 for a number v
GreaterThanZero(v) == IF v.t = "float" THEN v.tenths > 0 ELSE v.n > 0

TimeLimitApplies_nonneg(tl) ==
    ~IsNone(tl) /\ (IF tl.t = "float" THEN tl.tenths >= 0 ELSE tl.n >= 0)

\* line 121
TimeLimitApplies(tl) == ~IsNone(tl) /\ GreaterThanZero(tl)

\* lines 121-122
ExtendTime(cmd, tl) ==
    IF TimeLimitApplies(tl) THEN cmd \o <<TimeFlag, Str(tl)>> ELSE cmd

\* lines 112-122
BuildCmd(executable, tm, opts, tl) ==
    ExtendTime(ExtendOptions(InsertTimer(<<executable>>, tm), opts), tl)

\* MIPCLSHELL.create_command_line(executable, problem_files)
create_command_line(executable) ==
    LET fresh == NeedsTempfile(log_file)
        lf == IF fresh THEN create_tempfile(tempfiles + 1) ELSE log_file
        bunch == [t |-> "Bunch", cmd |-> BuildCmd(executable, timer, options, timelimit),
                  log_file |-> lf, env |-> None]
    IN  /\ ncalls < MaxCalls
        /\ log_file' = lf
        /\ tempfiles' = IF fresh THEN tempfiles + 1 ELSE tempfiles
        /\ soln_file' = None
        /\ command' = bunch
        /\ call_exe' = executable
        /\ returned_logs' = returned_logs \cup {lf}
        /\ last_op' = "create_command_line"
        /\ op_ret' = None
        /\ ncalls' = ncalls + 1
        /\ UNCHANGED <<options, timelimit, timer, enable, registry, warnings>>

EnableAfterLookup_reset(en, executable) == ~IsNone(executable)

\* lines 93-98: self.enable after the registry lookup
EnableAfterLookup(en, executable) ==
    IF IsNone(executable) THEN FALSE ELSE en

\* MIPCLSHELL._default_executable()
default_executable ==
    LET executable == registry
    IN  /\ ncalls < MaxCalls
        /\ enable' = EnableAfterLookup(enable, executable)
        /\ warnings' = IF IsNone(executable) THEN warnings + 1 ELSE warnings
        /\ op_ret' = IF IsNone(executable) THEN None ELSE StrV(executable.path)
        /\ last_op' = "_default_executable"
        /\ ncalls' = ncalls + 1
        /\ UNCHANGED <<options, timelimit, timer, log_file, soln_file, registry,
                       command, call_exe, tempfiles, returned_logs>>

\* MIPCLSHELL.process_logfile(): a new, empty SolverResults
process_logfile ==
    /\ op_ret' = [t |-> "SolverResults"]
    /\ last_op' = "process_logfile"
    /\ UNCHANGED <<options, timelimit, timer, log_file, soln_file, enable,
                   registry, command, call_exe, tempfiles, returned_logs,
                   warnings, ncalls>>

\* MIPCLSHELL.process_soln_file(results): pass
process_soln_file ==
    /\ op_ret' = None
    /\ last_op' = "process_soln_file"
    /\ UNCHANGED <<options, timelimit, timer, log_file, soln_file, enable,
                   registry, command, call_exe, tempfiles, returned_logs,
                   warnings, ncalls>>

\* MIPCLSHELL._get_version()
get_version ==
    /\ op_ret' = IF IsNone(mipcl_version) THEN ExtractVersionOfEmpty ELSE mipcl_version
    /\ last_op' = "_get_version"
    /\ UNCHANGED <<options, timelimit, timer, log_file, soln_file, enable,
                   registry, command, call_exe, tempfiles, returned_logs,
                   warnings, ncalls>>

ExePath == <<"/", "m">>
Registered == [t |-> "exe", path |-> ExePath]

\* the executable is installed or removed between two operations
RegistryChange ==
    /\ registry' = IF IsNone(registry) THEN Registered ELSE None
    /\ UNCHANGED <<options, timelimit, timer, log_file, soln_file, enable,
                   command, call_exe, tempfiles, returned_logs, warnings,
                   last_op, op_ret, ncalls>>

\* inputs of the adapter
Keys == {<<"a">>, <<"b">>, <<"c", "d">>}

Values ==
    { None, StrV(<<>>), StrV(<<" ", "\t">>), StrV(<<" ", "b">>),
      StrV(TimeFlag), IntV(0) }

OptionMaps ==
    { o \in UNION { [1..n -> [k : Keys, v : Values]] : n \in 0..MaxOpts } :
        \A i, j \in 1..Len(o) : i # j => o[i].k # o[j].k }

TimeLimits == {None, IntV(0 - 1), IntV(0), IntV(10), FloatV(5), FloatV(0 - 15)}

Timers == {None, StrV(<<>>), StrV(<<"t", "m">>)}

UserLog == [t |-> "path", s |-> "user.log"]

Executables == {ExePath, <<"x">>}

\* the adapter after construction, before any operation
SFresh ==
    /\ soln_file = None
    /\ enable = TRUE
    /\ command = None
    /\ call_exe = <<>>
    /\ tempfiles = 0
    /\ returned_logs = {}
    /\ warnings = 0
    /\ last_op = "none"
    /\ op_ret = None
    /\ ncalls = 0

SIdle ==
    /\ options = <<>>
    /\ timelimit = None
    /\ timer = None
    /\ log_file = None
    /\ registry = Registered
    /\ SFresh

\* ------------------------------------------------------ MockMIPCL (mock)
VARIABLES
    mocks,           \* the MockMIPCL objects constructed, in order
    mock_raised,     \* exception the last MockMIPCL(...) let through
    nmock            \* number of MockMIPCL(...) calls made

mvars == <<mocks, mock_raised, nmock>>

vars == <<fvars, svars, mvars>>

\* how SystemCallSolver.__init__ ends: it can fail with ApplicationError
\* when no executable is registered
ShellBaseInitOutcomes(reg) ==
    IF IsNone(reg) THEN {"ok", "ApplicationError"} ELSE {"ok"}

\* MIPCLSHELL.__init__(**kwds); nothing after a failing base __init__ runs
ShellInit(kwds, outcome) ==
    IF outcome = "ok"
    THEN [kwds |-> kwds \cup {"type"}, base |-> outcome,
          valid |-> ValidProblemFormats, problem_format |-> "mps",
          capabilities |-> {"linear", "integer"}, mock_subdir |-> "unset"]
    ELSE [kwds |-> kwds \cup {"type"}, base |-> outcome,
          valid |-> {}, problem_format |-> "unset",
          capabilities |-> {}, mock_subdir |-> "unset"]

Swallowed_nothing(exc) == FALSE

\* line 143: except ApplicationError
Swallowed(exc) == exc = "ApplicationError"

\* line 145: MockMIP.__init__(self, "mipcl")
MockMIPInit(obj, mockmip) == [obj EXCEPT !.mock_subdir = mockmip]

\* MockMIPCL(**kwds)
ConstructMock ==
    /\ nmock < MaxMocks
    /\ \E kw \in SUBSET OtherKeywords, outcome \in ShellBaseInitOutcomes(registry) :
        LET obj == ShellInit(kw, outcome)
        IN  IF outcome # "ok" /\ ~Swallowed(outcome)
            THEN /\ mock_raised' = outcome
                 /\ mocks' = mocks
            ELSE /\ mock_raised' = "none"
                 /\ mocks' = Append(mocks, MockMIPInit(obj, "mipcl"))
    /\ nmock' = nmock + 1

MInit ==
    /\ mocks = <<>>
    /\ mock_raised = "none"
    /\ nmock = 0

\* ------------------------------------------------------- specifications
FNext == New /\ UNCHANGED <<svars, mvars>>

FactoryInit ==
    /\ FInit
    /\ SIdle
    /\ MInit

SpecFactory == FactoryInit /\ [][FNext]_vars

CInit ==
    /\ FInit
    /\ MInit
    /\ options \in OptionMaps
    /\ timelimit \in TimeLimits
    /\ timer \in Timers
    /\ log_file \in {None, UserLog}
    /\ registry = Registered
    /\ SFresh

CNext == (\E e \in Executables : create_command_line(e)) /\ UNCHANGED <<fvars, mvars>>

SpecCommand == CInit /\ [][CNext]_vars

AdapterOptions == {<<>>, <<[k |-> <<"a">>, v |-> IntV(0)]>>}

AInit ==
    /\ FInit
    /\ MInit
    /\ options \in AdapterOptions
    /\ timelimit \in {None, IntV(10)}
    /\ timer = None
    /\ log_file \in {None, UserLog}
    /\ registry \in {None, Registered}
    /\ SFresh

ANext ==
    \/ (\E e \in Executables : create_command_line(e)) /\ UNCHANGED <<fvars, mvars>>
    \/ default_executable /\ UNCHANGED <<fvars, mvars>>
    \/ process_logfile /\ UNCHANGED <<fvars, mvars>>
    \/ process_soln_file /\ UNCHANGED <<fvars, mvars>>
    \/ get_version /\ UNCHANGED <<fvars, mvars>>
    \/ RegistryChange /\ UNCHANGED <<fvars, mvars>>

SpecAdapter == AInit /\ [][ANext]_vars

KInit ==
    /\ FInit
    /\ MInit
    /\ options = <<>>
    /\ timelimit = None
    /\ timer = None
    /\ log_file = None
    /\ registry \in {None, Registered}
    /\ SFresh

KNext ==
    \/ ConstructMock /\ UNCHANGED <<fvars, svars>>
    \/ RegistryChange /\ UNCHANGED <<fvars, mvars>>

SpecMock == KInit /\ [][KNext]_vars

\* ---------------------------------------------------- factory properties
Returned == delegates[ret.id]

KnownIo == {None, StrV(MPS), StrV(MOD), StrV(OS)}

\* C1: with solver_io 'mps', None or absent the call returns the delegate it
\* just obtained from the '_mipcl_shell' entry, its problem format is MPS and
\* solver_io is not among the keywords the delegate received.
Thm_C1_MpsDelegate ==
    (nnew > 0 /\ (~request.has_io \/ request.io \in {None, StrV(MPS)}))
    => /\ raised = "none"
       /\ ret.t = "obj"
       /\ ret.id = Len(delegates)
       /\ Returned.entry = "_mipcl_shell"
       /\ Returned.problem_format = "mps"
       /\ "solver_io" \notin Returned.kwds
       /\ Returned.kwds = request.others

Wit_C1_NoneIo ==
    /\ nnew > 0
    /\ request.has_io /\ request.io = None /\ request.others # {}
    /\ ret.t = "obj"
    /\ Returned.problem_format = "mps"

\* C2: with solver_io 'mod' the call returns a '_mipcl_shell' delegate whose
\* problem format is 'mod', one of the formats the shell adapter declares
\* valid.
Claim_C2_ModDelegate ==
    (nnew > 0 /\ request.has_io /\ request.io = StrV(MOD))
    => /\ ret.t = "obj"
       /\ Returned.entry = "_mipcl_shell"
       /\ Returned.problem_format = "mod"
       /\ Returned.problem_format \in Returned.valid

\* C3: with solver_io 'os' the call returns the '_ossolver' delegate with the
\* option 'solver=mps_mipcl' set; no '_mipcl_shell' delegate ever carries an
\* option set by the factory.
Thm_C3_OsOption ==
    /\ (nnew > 0 /\ request.has_io /\ request.io = StrV(OS))
       => /\ raised = "none"
          /\ ret.t = "obj"
          /\ ret.id = Len(delegates)
          /\ Returned.entry = "_ossolver"
          /\ Returned.options = <<"solver=mps_mipcl">>
    /\ (nnew > 0 /\ ~(request.has_io /\ request.io = StrV(OS)) /\ ret.t = "obj")
       => Returned.options = <<>>
    /\ \A i \in 1..Len(delegates) :
          delegates[i].entry # "_ossolver" => delegates[i].options = <<>>

Wit_C3_OsReturned ==
    /\ nnew > 1
    /\ request.has_io /\ request.io = StrV(OS)
    /\ ret.t = "obj"
    /\ Len(delegates) > 1
    /\ delegates[1].entry = "_mipcl_shell"

\* C4: a call whose solver_io is none of 'mps', 'mod', 'os', None logs one
\* 'Unknown IO type' error, returns None, raises nothing and creates no
\* delegate.
Thm_C4_UnknownMode ==
    [][ (nnew' = nnew + 1 /\ request'.has_io /\ request'.io \notin KnownIo)
        => /\ ret' = None
           /\ raised' = "none"
           /\ delegates' = delegates
           /\ Len(logger_errors') = Len(logger_errors) + 1
           /\ logger_errors'[Len(logger_errors')].level = "error"
           /\ logger_errors'[Len(logger_errors')].fmt = "Unknown IO type: %s"
           /\ logger_errors'[Len(logger_errors')].arg = Str(request'.io)
           /\ SubSeq(logger_errors', 1, Len(logger_errors)) = logger_errors ]_fvars

Wit_C4_UnknownLogged ==
    /\ nnew > 1
    /\ request.has_io /\ request.io = StrV(<<"l", "p">>)
    /\ ret = None
    /\ logger_errors # <<>>
    /\ delegates # <<>>

\* ---------------------------------------------- command-line properties
Called == last_op = "create_command_line" /\ ~IsNone(command)

Blank(v) ==
    \/ v.t = "None"
    \/ (v.t = "str" /\ \A i \in 1..Len(v.s) : v.s[i] \in Whitespace)

GroupLen(v) == IF Blank(v) THEN 1 ELSE 2

TimerConfigured == timer.t = "str" /\ Len(timer.s) > 0

ExeAt == IF TimerConfigured THEN 2 ELSE 1

RECURSIVE GroupsLen(_)
GroupsLen(n) == IF n = 0 THEN 0 ELSE GroupsLen(n - 1) + GroupLen(options[n].v)

\* index of the last argument before option i's group
Before(i) == ExeAt + GroupsLen(i - 1)

PositiveLimit ==
    \/ (timelimit.t = "int" /\ timelimit.n >= 1)
    \/ (timelimit.t = "float" /\ timelimit.tenths >= 1)

TimeLen == IF PositiveLimit THEN 2 ELSE 0

\* C5: every option contributes, in iteration order, one group: '--<name>'
\* alone when its value is None or a blank string, else '--<name>' followed by
\* the string form of the value; nothing is dropped or duplicated.
Thm_C5_OptionGroups ==
    Called =>
        LET c == command.cmd
        IN  /\ Len(c) = ExeAt + GroupsLen(Len(options)) + TimeLen
            /\ \A i \in 1..Len(options) :
                  /\ c[Before(i) + 1] = <<"-", "-">> \o options[i].k
                  /\ ~Blank(options[i].v) => c[Before(i) + 2] = Str(options[i].v)

Wit_C5_MixedOptions ==
    /\ Called
    /\ Len(options) = 2
    /\ options[1].v = StrV(<<" ", "\t">>)
    /\ options[2].v = IntV(0)
    /\ Len(command.cmd) = ExeAt + 3 + TimeLen

\* C6: the command ends with '-time' and the string form of the time limit
\* exactly when the time limit is set and greater than zero; otherwise the
\* command is the timer, executable and option arguments and nothing more.
Thm_C6_TimeLimit ==
    Called =>
        LET c == command.cmd
            n == Len(c)
            endsWithTime == /\ n >= 3
                            /\ c[n - 1] = TimeFlag
                            /\ c[n] = Str(timelimit)
        IN  /\ PositiveLimit <=> endsWithTime
            /\ ~PositiveLimit => n = ExeAt + GroupsLen(Len(options))
            /\ PositiveLimit => n = ExeAt + GroupsLen(Len(options)) + 2

Wit_C6_PositiveLimit ==
    /\ Called
    /\ timelimit = FloatV(5)
    /\ command.cmd[Len(command.cmd) - 1] = TimeFlag
    /\ command.cmd[Len(command.cmd)] = <<"0", ".", "5">>
    /\ options # <<>>

\* C9: a temporary log file is requested only while the adapter has none, a
\* log file once set is never replaced, so at most one request is made, all
\* calls return the same log_file and it is the adapter's stored log file.
Thm_C9_LazyLogFile ==
    /\ [](/\ tempfiles <= 1
          /\ Cardinality(returned_logs) <= 1
          /\ (ncalls > 0 => returned_logs = {log_file} /\ command.log_file = log_file)
          /\ (ncalls > 0 => ~IsNone(log_file)))
    /\ [][ /\ ~IsNone(log_file) => (log_file' = log_file /\ tempfiles' = tempfiles)
           /\ tempfiles' # tempfiles
              => (IsNone(log_file) /\ log_file'.t = "tmp"
                  /\ log_file'.suffix = ".mipcl.log") ]_svars

Wit_C9_SecondCall ==
    /\ ncalls >= 2
    /\ tempfiles = 1
    /\ command.log_file.t = "tmp"

\* C10: the command is the timer (iff one is configured), the executable, the
\* option arguments, then the optional '-time <seconds>' pair.
IsOptionArg(c, j) ==
    \E i \in 1..Len(options) :
        \/ c[j] = <<"-", "-">> \o options[i].k
        \/ (j > 1 /\ c[j - 1] = <<"-", "-">> \o options[i].k /\ c[j] = Str(options[i].v))

Thm_C10_Shape ==
    Called =>
        LET c == command.cmd
            n == Len(c)
        IN  /\ n >= ExeAt
            /\ TimerConfigured => c[1] = timer.s
            /\ c[ExeAt] = call_exe
            /\ n - TimeLen >= ExeAt
            /\ \A j \in (ExeAt + 1)..(n - TimeLen) : IsOptionArg(c, j)
            /\ n - TimeLen - ExeAt = GroupsLen(Len(options))
            /\ PositiveLimit => (c[n - 1] = TimeFlag /\ c[n] = Str(timelimit))

Wit_C10_TimerAndLimit ==
    /\ Called
    /\ TimerConfigured
    /\ PositiveLimit
    /\ Len(options) = 2
    /\ Len(command.cmd) > 5

\* ------------------------------------------------- adapter properties
LookupStep == ncalls' = ncalls + 1 /\ last_op' = "_default_executable"

\* C7: _default_executable with nothing registered logs a warning, disables
\* the adapter and returns None; with an executable registered it returns the
\* executable's path and leaves the enabled state alone.  No operation of the
\* adapter turns a disabled adapter back on.
Thm_C7_DefaultExecutable ==
    [][ /\ (LookupStep /\ registry = None)
           => /\ enable' = FALSE
              /\ op_ret' = None
              /\ warnings' = warnings + 1
        /\ (LookupStep /\ registry # None)
           => /\ op_ret' = StrV(registry.path)
              /\ enable' = enable
              /\ warnings' = warnings
        /\ ~enable => ~enable' ]_vars

Wit_C7_DisabledThenFound ==
    /\ ~enable
    /\ warnings = 1
    /\ ncalls >= 2
    /\ last_op = "_default_executable"
    /\ op_ret = StrV(ExePath)

\* ---------------------------------------------------- mock properties
\* C8: MockMIPCL(...) lets no exception through; whether the shell
\* initialization succeeded or failed, the object exists afterwards with
\* MockMIP.__init__ run on it under the name 'mipcl'.
Thm_C8_MockConstructs ==
    [][ nmock' = nmock + 1
        => /\ mock_raised' = "none"
           /\ Len(mocks') = Len(mocks) + 1
           /\ SubSeq(mocks', 1, Len(mocks)) = mocks
           /\ mocks'[Len(mocks')].mock_subdir = "mipcl" ]_vars

Wit_C8_FailedShellInit ==
    /\ nmock > 1
    /\ mock_raised = "none"
    /\ Len(mocks) = nmock
    /\ mocks[1].base = "ok"
    /\ mocks[Len(mocks)].base = "ApplicationError"
    /\ mocks[Len(mocks)].mock_subdir = "mipcl"

====
